---- MODULE Spec2Model ----
(***************************************************************************)
(* A model of pyllmtranslator: the text chunker (core/chunker.py), the     *)
(* translation manager (core/translator.py), the two backend clients      *)
(* (llm/openai_client.py, llm/ollama_client.py) and the worker thread of   *)
(* the user interface (ui/main_window.py, TranslationThread).              *)
(*                                                                         *)
(* Text is a sequence of characters; a character is one of six classes:    *)
(*   "x"    a character outside U+4E00..U+9FFF that is neither whitespace  *)
(*          nor sentence punctuation (a Latin letter)                      *)
(*   "zh"   a CJK ideograph, U+4E00..U+9FFF                                *)
(*   "dot"  one of the ASCII sentence enders . ! ?                         *)
(*   "cdot" one of the full-width sentence enders (U+3002, U+FF01, U+FF1F) *)
(*   "sp"   a whitespace character other than a line feed                  *)
(*   "nl"   a line feed                                                    *)
(***************************************************************************)
EXTENDS Integers, Sequences, FiniteSets, TLC

\* ------------------------------------------------------------------ bounds

\* Longest input text of the chunker specification, in characters.
MaxLen == 5
\* Largest token budget (max_tokens) of the chunker specification.
MaxBudget == 2

\* --------------------------------------------------------------- constants

\* chunker.py:104, the window of the forced split inside _split_by_sentences
SentenceWindow == 500
\* chunker.py:130 and :156, characters per token of the forced split
CharsPerToken == 3

\* --------------------------------------------------------------- characters

Chars == {"x", "zh", "dot", "cdot", "sp", "nl"}
Whitespace == {"sp", "nl"}
AsciiEnders == {"dot"}
WideEnders == {"cdot"}

\* All texts of at most n characters.
TextsUpTo(n) == UNION {[1..k -> Chars] : k \in 0..n}

Max(a, b) == IF a >= b THEN a ELSE b
Min(a, b) == IF a <= b THEN a ELSE b

\* The number of positions of s holding a character of set S.
CountIn(s, S) == Cardinality({i \in 1..Len(s) : s[i] \in S})

\* The length of the longest run of characters of S that starts at s[i].
RECURSIVE RunLen(_, _, _)
RunLen(s, i, S) ==
    IF i > Len(s) \/ i < 1 THEN 0
    ELSE IF s[i] \in S THEN 1 + RunLen(s, i + 1, S) ELSE 0

\* str.strip(): leading and trailing whitespace removed.
RECURSIVE StripLeft(_)
StripLeft(s) ==
    IF s = <<>> THEN <<>>
    ELSE IF Head(s) \in Whitespace THEN StripLeft(Tail(s)) ELSE s

RECURSIVE StripRight(_)
StripRight(s) ==
    IF s = <<>> THEN <<>>
    ELSE IF s[Len(s)] \in Whitespace THEN StripRight(SubSeq(s, 1, Len(s) - 1)) ELSE s

Strip(s) == StripRight(StripLeft(s))

\* ---------------------------------------------------------- TokenEstimator

\* ceil(n / 1.5) and ceil(n / 4) for a natural number n
CeilDiv1_5(n) == (2 * n + 2) \div 3
CeilDiv4(n) == (n + 3) \div 4

\* estimate_tokens with `//` in the place of math.ceil.
estimate_tokens_floor(text) ==
    IF text = <<>> THEN 0
    ELSE LET chinese_chars == CountIn(text, {"zh"})
             other_chars == Len(text) - chinese_chars
         IN Max(((2 * chinese_chars) \div 3) + (other_chars \div 4), 1)

estimate_tokens(text) ==
    IF text = <<>> THEN 0
    ELSE LET chinese_chars == CountIn(text, {"zh"})
             other_chars == Len(text) - chinese_chars
         IN Max(CeilDiv1_5(chinese_chars) + CeilDiv4(other_chars), 1)

\* ------------------------------------------------------------ regular expressions

\* The length of the match of a pattern at position i of s, 0 when it does not
\* match there. The patterns of the chunker:
\*   "para"  \n\s*\n          (_split_by_paragraphs)
\*   "en"    [.!?]+\s+        (sentence_patterns[0])
\*   "zh"    [。！？]+\s*      (sentence_patterns[1])
\*   "nlend" [.!?。！？]+\n    (sentence_patterns[2])
\* Every quantifier is greedy and backtracks.
RECURSIVE LastNlIn(_, _, _)
LastNlIn(s, lo, hi) ==
    IF hi < lo THEN 0
    ELSE IF s[hi] = "nl" THEN hi ELSE LastNlIn(s, lo, hi - 1)

MatchLen(p, s, i) ==
    CASE p = "para" ->
           IF s[i] # "nl" THEN 0
           ELSE LET w == RunLen(s, i + 1, Whitespace)
                    j == LastNlIn(s, i + 1, i + w)
                IN IF j = 0 THEN 0 ELSE j - i + 1
      [] p = "en" ->
           LET e == RunLen(s, i, AsciiEnders)
               w == RunLen(s, i + e, Whitespace)
           IN IF e >= 1 /\ w >= 1 THEN e + w ELSE 0
      [] p = "zh" ->
           LET e == RunLen(s, i, WideEnders)
               w == RunLen(s, i + e, Whitespace)
           IN IF e >= 1 THEN e + w ELSE 0
      [] p = "nlend" ->
           LET e == RunLen(s, i, AsciiEnders \cup WideEnders)
           IN IF e >= 1 /\ i + e <= Len(s) /\ s[i + e] = "nl" THEN e + 1 ELSE 0

\* re.split: the pieces of s between the successive leftmost matches of p, and
\* with capture (a pattern in parentheses) each match after the piece before it.
RECURSIVE SplitFrom(_, _, _, _, _)
SplitFrom(s, p, i, start, capture) ==
    IF i > Len(s) THEN << SubSeq(s, start, Len(s)) >>
    ELSE LET m == MatchLen(p, s, i)
         IN IF m > 0
            THEN << SubSeq(s, start, i - 1) >>
                 \o (IF capture THEN << SubSeq(s, i, i + m - 1) >> ELSE <<>>)
                 \o SplitFrom(s, p, i + m, i + m, capture)
            ELSE SplitFrom(s, p, i + 1, start, capture)

ReSplit(p, s, capture) == SplitFrom(s, p, 1, 1, capture)

\* [f(x) for x in xs if x.strip()] with f = strip
RECURSIVE StripNonBlank(_)
StripNonBlank(xs) ==
    IF xs = <<>> THEN <<>>
    ELSE (IF Strip(Head(xs)) # <<>> THEN << Strip(Head(xs)) >> ELSE <<>>)
         \o StripNonBlank(Tail(xs))

\* ----------------------------------------------------------------- Segmenter

sentence_patterns == << "en", "zh", "nlend" >>

_split_by_paragraphs(text) == StripNonBlank(ReSplit("para", text, FALSE))

_force_split(text, max_chars) ==
    [k \in 1..((Len(text) + max_chars - 1) \div max_chars) |->
        SubSeq(text, (k - 1) * max_chars + 1, Min(k * max_chars, Len(text)))]

\* The last index the loop `for i in range(0, len(parts) - 1, 2)` visits is the
\* largest even number below len(parts) - 1 (0-based); PairStarts are the
\* 1-based indices of the pieces it visits.
PairStarts(parts) == {i \in 1..(Len(parts) - 1) : i % 2 = 1}

RECURSIVE SentencesOf(_, _)
SentencesOf(parts, i) ==
    IF i \notin PairStarts(parts) THEN <<>>
    ELSE LET sentence == parts[i] \o (IF i + 1 <= Len(parts) THEN parts[i + 1] ELSE <<>>)
         IN (IF Strip(sentence) # <<>> THEN << Strip(sentence) >> ELSE <<>>)
            \o SentencesOf(parts, i + 2)

\* The first pattern of sentence_patterns, from index k on, that splits the text.
RECURSIVE FirstSplit(_, _)
FirstSplit(text, k) ==
    IF k > Len(sentence_patterns) THEN <<>>
    ELSE LET parts == ReSplit(sentence_patterns[k], text, TRUE)
         IN IF Len(parts) > 1 THEN SentencesOf(parts, 1) ELSE FirstSplit(text, k + 1)

_split_by_sentences(text) ==
    LET sentences == FirstSplit(text, 1)
    IN IF sentences = <<>> THEN _force_split(text, SentenceWindow) ELSE sentences

\* The loop of _merge_small_chunks: merged is merged_chunks, cur is current_chunk.
RECURSIVE MergeLoop(_, _, _, _)
MergeLoop(chunks, max_tokens, merged, cur) ==
    IF chunks = <<>> THEN (IF cur # <<>> THEN Append(merged, cur) ELSE merged)
    ELSE LET chunk == Head(chunks)
             test_chunk == IF cur # <<>> THEN cur \o << "nl" >> \o chunk ELSE chunk
         IN IF estimate_tokens(test_chunk) <= max_tokens
            THEN MergeLoop(Tail(chunks), max_tokens, merged, test_chunk)
            ELSE LET closed == IF cur # <<>> THEN Append(merged, cur) ELSE merged
                 IN IF estimate_tokens(chunk) > max_tokens
                    THEN LET sub_chunks == _force_split(chunk, max_tokens * CharsPerToken)
                         IN MergeLoop(Tail(chunks), max_tokens,
                                closed \o SubSeq(sub_chunks, 1, Len(sub_chunks) - 1),
                                IF sub_chunks # <<>> THEN sub_chunks[Len(sub_chunks)] ELSE <<>>)
                    ELSE MergeLoop(Tail(chunks), max_tokens, closed, chunk)

_merge_small_chunks(chunks, max_tokens) ==
    IF chunks = <<>> THEN <<>> ELSE MergeLoop(chunks, max_tokens, <<>>, <<>>)

\* _process_chunks that puts each chunk's pieces in front of the result list
\* instead of extending it.
RECURSIVE _process_chunks_prepend(_, _, _)
_process_chunks_prepend(initial_chunks, max_tokens, allow_sentence_split) ==
    IF initial_chunks = <<>> THEN <<>>
    ELSE LET chunk == Head(initial_chunks)
             sub_chunks ==
                 IF estimate_tokens(chunk) <= max_tokens THEN << chunk >>
                 ELSE IF allow_sentence_split
                      THEN _merge_small_chunks(_split_by_sentences(chunk), max_tokens)
                      ELSE _force_split(chunk, max_tokens * CharsPerToken)
         IN _process_chunks_prepend(Tail(initial_chunks), max_tokens, allow_sentence_split)
                \o sub_chunks

RECURSIVE _process_chunks(_, _, _)
_process_chunks(initial_chunks, max_tokens, allow_sentence_split) ==
    IF initial_chunks = <<>> THEN <<>>
    ELSE LET chunk == Head(initial_chunks)
             sub_chunks ==
                 IF estimate_tokens(chunk) <= max_tokens THEN << chunk >>
                 ELSE IF allow_sentence_split
                      THEN _merge_small_chunks(_split_by_sentences(chunk), max_tokens)
                      ELSE _force_split(chunk, max_tokens * CharsPerToken)
         IN sub_chunks \o _process_chunks(Tail(initial_chunks), max_tokens, allow_sentence_split)

\* prefer_boundary is read only through `in`: a set of boundary names.
Boundaries == {"paragraph", "sentence"}
DefaultBoundary == {"paragraph", "sentence"}

\* chunk_text that returns its chunks as they are, without
\* `[chunk.strip() for chunk in chunks if chunk.strip()]`.
chunk_text_unfiltered(text, max_tokens, prefer_boundary) ==
    IF Strip(text) = <<>> THEN <<>>
    ELSE IF estimate_tokens(text) <= max_tokens THEN << text >>
    ELSE IF "paragraph" \in prefer_boundary
         THEN _process_chunks(_split_by_paragraphs(text), max_tokens,
                              "sentence" \in prefer_boundary)
         ELSE _process_chunks(<< text >>, max_tokens, "sentence" \in prefer_boundary)

chunk_text(text, max_tokens, prefer_boundary) ==
    IF Strip(text) = <<>> THEN <<>>
    ELSE IF estimate_tokens(text) <= max_tokens THEN << text >>
    ELSE StripNonBlank(
            IF "paragraph" \in prefer_boundary
            THEN _process_chunks(_split_by_paragraphs(text), max_tokens,
                                 "sentence" \in prefer_boundary)
            ELSE _process_chunks(<< text >>, max_tokens, "sentence" \in prefer_boundary))

\* ------------------------------------------------------------------- state

VARIABLES
    c_text,      \* chunk_text's argument text
    c_budget,    \* chunk_text's argument max_tokens
    c_pref,      \* chunk_text's argument prefer_boundary
    c_out,       \* the list chunk_text returned
    c_est,       \* the number estimate_tokens returned, -1 before the call
    c_pc         \* "input" before a call, "done" after chunk_text,
                 \* "estimated" after estimate_tokens

VARIABLES
    m_in,        \* _merge_chunks' argument chunks
    m_out,       \* the text _merge_chunks returned
    m_pc         \* "input" before the call, "done" after it

mvars == << m_in, m_out, m_pc >>

VARIABLES
    p_template,  \* format_prompt's argument template
    p_text,      \* format_prompt's argument text
    p_out,       \* what format_prompt returned
    p_pc         \* "input" before the call, "done" after it

pvars == << p_template, p_text, p_out, p_pc >>

\* The variables of the calls of the pure functions.
cvars == << c_text, c_budget, c_pref, c_out, c_est, c_pc, mvars, pvars >>

VARIABLES
    run,             \* the batch runs started so far on the one TranslationManager
    mode,            \* "thread": TranslationThread.run; "batch": translate_files
    provider,        \* config['provider'] of the current run
    cfg_retries,     \* config['max_retries'] of the current run
    total,           \* len(files) of the current run
    llm_client,      \* TranslationManager.llm_client: "none", "openai" or "ollama"
    cl_run,          \* the run whose config built llm_client (0: no client)
    cl_retries,      \* llm_client.max_retries
    should_cancel,   \* OpenAIClient.should_cancel
    current_request, \* OllamaClient.current_request: "none", or the last response,
                     \* "ok" (truthy, status < 400) or "bad" (falsy)
    session,         \* OllamaClient.session: the number of sessions replaced so far
    ol_model,        \* OllamaClient.model: "requested" or "first" (the first available)
    w_pc,            \* the worker's position
    w_doc,           \* the index (1-based) of the document of the current iteration
    w_seg,           \* the index (1-based) of the chunk of the current iteration
    w_nseg,          \* len(chunks)
    w_content,       \* content, what read_file returned: "none", "blank" or "text"
    w_translated,    \* len(translated_chunks)
    w_attempt,       \* attempt, the loop variable of translate
    w_reqs,          \* generation requests sent by the current translate call
    w_ret,           \* what translate returned: "text", "empty" ('') or "none"
    w_wait,          \* the argument of the time.sleep between two attempts
    w_last,          \* how the request that the current translate call sent last
                     \* ended (see Kind), "cancelled" when the call saw
                     \* should_cancel, "none" before a request, while one is
                     \* out and after the sleep that follows a failed one;
                     \* for OllamaClient also how its look at the model list
                     \* ended: "substituted" until the first request has
                     \* answered, "no_models"
    should_stop,     \* TranslationThread.should_stop
    u_pc,            \* the position of the caller inside TranslationThread.stop
    stops,           \* cancellations requested in the current run
    start_enabled,   \* MainWindow.start_btn.isEnabled() (stop_btn is enabled when
                     \* start_btn is not, once a run was started)
    status,          \* per document, the statuses emitted by file_completed
    percent,         \* the values emitted by progress_updated
    results,         \* translate_files' results dictionary
    callbacks,       \* the calls of translate_files' progress_callback
    tf_result,       \* how translate_file ended for the current document
    sent,            \* the translate calls made for the current document's chunks
    written,         \* the output files written for the current document
    u_pos,           \* where the worker was when stop set should_stop
    g_between,       \* k when a whole stop ran between the calls k and k+1 of the
                     \* current document, else 0
    g_inflight,      \* k when a whole stop ran during one request of call k of the
                     \* current document, else 0
    g_failed,        \* k when the translate call k of the current document
                     \* returned None, else 0
    g_cancel_reqs,   \* w_reqs when cancel_request was first invoked in this call, or -1
    g_interrupted    \* a translate call of the current document returned None
                     \* because it saw should_cancel

cfgvars == << run, mode, provider, cfg_retries, total >>
clvars == << llm_client, cl_run, cl_retries, should_cancel, current_request, session, ol_model >>
tfvars == << w_seg, w_nseg, w_content, w_translated >>
callvars == << w_attempt, w_reqs, w_ret, w_wait, w_last >>
wvars == << w_pc, w_doc, tfvars, callvars >>
uvars == << should_stop, u_pc, stops, u_pos, start_enabled >>
outvars == << status, percent, results, callbacks, tf_result, sent, written >>
gvars == << g_between, g_inflight, g_failed, g_cancel_reqs, g_interrupted >>
ovars == << cfgvars, clvars, wvars, uvars, outvars, gvars >>
vars == << cvars, ovars >>

\* ------------------------------------------------------------ more bounds

\* Documents of one batch run, at most.
NumDocs == 2
\* Chunks of one document, at most.
MaxSegs == 2
\* The largest max_retries a configuration gives.
MaxRetries == 2
\* Batch runs started on the one TranslationManager, at most.
MaxRuns == 2
\* Cancellations requested during one batch run, at most.
MaxStops == 1

Docs == 1..NumDocs
Modes == {"thread", "batch"}
Providers == {"openai", "ollama", "unknown"}

\* What one chat-completion request of OpenAIClient.translate ends in.
OpenAIResults ==
    {"text", "blank", "no_choices", "rate_limit", "api_error", "auth_error",
     "conn_error", "timeout", "other_error"}
\* What the model listing of OllamaClient.ensure_model_available ends in.
TagsResults == {"listed", "substitute", "unavailable", "tags_error"}
\* What one generation request of OllamaClient.translate ends in.
OllamaResults ==
    {"text", "blank", "no_field", "http_error", "auth_error", "conn_error", "timeout",
     "request_error", "json_request_error", "json_error", "other_error"}

\* The kind of a request's end: a text, a transient error (the connection fails,
\* the request times out, the rate limit is hit), an authentication failure
\* (openai.error.AuthenticationError; HTTP 401 from an Ollama endpoint), a reply
\* that is well-formed and holds a blank text, a reply that is malformed (no
\* choices, no 'response' field, a body that is not JSON), or other.
Kind(res) ==
    CASE res = "text" -> "ok"
      [] res = "rate_limit" -> "rate_limit"
      [] res \in {"conn_error", "timeout", "tags_error"} -> "transient"
      [] res = "blank" -> "blank"
      [] res \in {"no_choices", "no_field", "json_error", "json_request_error"} -> "malformed"
      [] res = "auth_error" -> "auth"
      [] res = "substitute" -> "substituted"
      [] res = "unavailable" -> "no_models"
      [] OTHER -> "other"

\* ------------------------------------------------------------ the worker's places

\* Inside llm_client.translate.
TranslatePcs == {"oa_check", "oa_flight", "oa_sleep", "ol_tags", "ol_start", "ol_flight"}
\* A generation request is on the network.
FlightPcs == {"oa_flight", "ol_flight"}
\* The worker has ended its run (or has not started one).
RestPcs == {"idle", "t_end", "b_end", "b_crashed"}

InTranslate == w_pc \in TranslatePcs

\* Where the worker is, for a cancellation: in the request of a chunk's call
\* ("flight"), after a chunk's call returned its text and before the next chunk's
\* call ("between"), or elsewhere.
Phase ==
    IF w_pc \in FlightPcs THEN "flight"
    ELSE IF w_pc \in {"tf_sleep", "tf_loop"} /\ w_seg >= 1 /\ w_seg < w_nseg THEN "between"
    ELSE "other"

Pos == << w_doc, w_seg, w_attempt, w_reqs, Phase >>

\* ------------------------------------------------------------------- Init

ChunkIdle ==
    /\ c_text = <<>>
    /\ c_budget = 1
    /\ c_pref = DefaultBoundary
    /\ c_out = <<>>
    /\ c_est = -1
    /\ c_pc = "input"

FreshRun ==
    /\ status = [d \in Docs |-> <<>>]
    /\ percent = <<>>
    /\ results = [d \in Docs |-> "none"]
    /\ callbacks = <<>>
    /\ tf_result = "none"
    /\ sent = 0
    /\ written = 0
    /\ g_between = 0
    /\ g_inflight = 0
    /\ g_failed = 0
    /\ g_cancel_reqs = -1
    /\ g_interrupted = FALSE

\* MainWindow.__init__, TranslationManager.__init__: no client, no thread yet.
OrchIdle ==
    /\ run = 0
    /\ mode = "thread"
    /\ provider = "openai"
    /\ cfg_retries = MaxRetries
    /\ total = 0
    /\ llm_client = "none"
    /\ cl_run = 0
    /\ cl_retries = 0
    /\ should_cancel = FALSE
    /\ current_request = "none"
    /\ session = 0
    /\ ol_model = "requested"
    /\ w_pc = "idle"
    /\ w_doc = 0
    /\ w_seg = 0
    /\ w_nseg = 0
    /\ w_content = "none"
    /\ w_translated = 0
    /\ w_attempt = 0
    /\ w_reqs = 0
    /\ w_ret = "none"
    /\ w_wait = 0
    /\ w_last = "none"
    /\ should_stop = FALSE
    /\ u_pc = "idle"
    /\ stops = 0
    /\ start_enabled = TRUE
    /\ u_pos = << 0, 0, 0, 0, "other" >>
    /\ FreshRun

MergeIdle ==
    /\ m_in = <<>>
    /\ m_out = <<>>
    /\ m_pc = "input"

PromptIdle ==
    /\ p_template = <<>>
    /\ p_text = "plain"
    /\ p_out = <<>>
    /\ p_pc = "input"

Init == ChunkIdle /\ MergeIdle /\ PromptIdle /\ OrchIdle

\* ------------------------------------------------------- chunker specification

\* Characters of one paragraph of a text of three paragraphs, at most.
MaxParaLen == 2

\* The characters of those paragraphs: one that is dense script, one that is not.
ParagraphChars == {"x", "zh"}

\* All texts of three paragraphs of 1..n characters, a blank line between them.
ThreeParagraphs(n) ==
    LET Para == UNION {[1..k -> ParagraphChars] : k \in 1..n}
    IN  {p1 \o << "nl", "nl" >> \o p2 \o << "nl", "nl" >> \o p3 :
             p1 \in Para, p2 \in Para, p3 \in Para}

ChunkInit ==
    /\ c_text \in TextsUpTo(MaxLen) \cup ThreeParagraphs(MaxParaLen)
    /\ c_budget \in 1..MaxBudget
    /\ c_pref \in SUBSET Boundaries
    /\ c_out = <<>>
    /\ c_est = -1
    /\ c_pc = "input"
    /\ MergeIdle
    /\ PromptIdle
    /\ OrchIdle

CallChunkText ==
    /\ c_pc = "input"
    /\ c_out' = chunk_text(c_text, c_budget, c_pref)
    /\ c_pc' = "done"
    /\ UNCHANGED << c_text, c_budget, c_pref, c_est, mvars, pvars, ovars >>

CallEstimateTokens ==
    /\ c_pc = "input"
    /\ c_est' = estimate_tokens(c_text)
    /\ c_pc' = "estimated"
    /\ UNCHANGED << c_text, c_budget, c_pref, c_out, mvars, pvars, ovars >>

ChunkNext == CallChunkText \/ CallEstimateTokens

ChunkSpec == ChunkInit /\ [][ChunkNext]_vars

\* --------------------------------------------------------- merge specification

\* Translated chunks of one document, at most.
MaxPieces == 3
\* Characters of one translated chunk, at most.
MaxPieceLen == 2

\* The characters _merge_chunks tells apart: whitespace that is a newline,
\* whitespace that is not, and the others.
MergeChars == {"x", "sp", "nl"}

\* All lists of at most n texts of at most k characters.
PiecesUpTo(n, k) ==
    UNION {[1..j -> UNION {[1..l -> MergeChars] : l \in 0..k}] : j \in 0..n}

\* merged.endswith('\n\n')
EndsWithBlankLine(merged) ==
    /\ Len(merged) >= 2
    /\ merged[Len(merged)] = "nl"
    /\ merged[Len(merged) - 1] = "nl"

\* The loop of _merge_chunks from the chunk of index i (from 1) on.
RECURSIVE MergeFrom(_, _, _)
MergeFrom(chunks, i, merged) ==
    IF i > Len(chunks) THEN merged
    ELSE LET chunk == Strip(chunks[i])
             sep == IF i > 1 /\ ~EndsWithBlankLine(merged) /\ chunk[1] # "nl"
                    THEN << "nl", "nl" >> ELSE << >>
         IN  IF chunk # << >>
             THEN MergeFrom(chunks, i + 1, merged \o sep \o chunk)
             ELSE MergeFrom(chunks, i + 1, merged)

_merge_chunks(chunks) == IF chunks = << >> THEN << >> ELSE MergeFrom(chunks, 1, << >>)

MergeInit ==
    /\ m_in \in PiecesUpTo(MaxPieces, MaxPieceLen)
    /\ m_out = <<>>
    /\ m_pc = "input"
    /\ ChunkIdle
    /\ PromptIdle
    /\ OrchIdle

CallMergeChunks ==
    /\ m_pc = "input"
    /\ m_out' = _merge_chunks(m_in)
    /\ m_pc' = "done"
    /\ UNCHANGED << m_in, c_text, c_budget, c_pref, c_out, c_est, c_pc, pvars, ovars >>

MergeNext == CallMergeChunks

MergeSpec == MergeInit /\ [][MergeNext]_vars

\* -------------------------------------------------------- prompt specification

\* Characters of a template, at most.
MaxTemplate == 4

\* The characters str.format tells apart in a template: the two braces, the
\* letters that stand for the field names source_lang, target_lang and text
\* (and are plain letters outside a field), and another letter.
TemplateChars == {"{", "}", "s", "g", "t", "u"}

\* The keyword arguments format_prompt passes to template.format.
FieldNames == {"s", "g", "t"}

\* The segment texts: str.format does not look into the values it inserts.
PromptTexts == {"plain", "{braces}"}

Raised == << "raised" >>

\* The index of the "}" that closes the field opened before s[i], counting the
\* braces nested in it; 0 when the field is not closed.
RECURSIVE FieldEnd(_, _, _)
FieldEnd(s, i, depth) ==
    IF i > Len(s) THEN 0
    ELSE IF s[i] = "{" THEN FieldEnd(s, i + 1, depth + 1)
    ELSE IF s[i] = "}" THEN (IF depth = 1 THEN i ELSE FieldEnd(s, i + 1, depth - 1))
    ELSE FieldEnd(s, i + 1, depth)

\* str.format(source_lang=..., target_lang=..., text=...) from s[i] on, after
\* the output out: "{{" and "}}" are braces, "{name}" is the value of a keyword
\* argument; a single "}", a field that is not closed and a field whose name is
\* no keyword argument (KeyError, IndexError for "{}", ValueError) raise.
RECURSIVE FormatFrom(_, _, _, _, _, _)
FormatFrom(s, i, out, source_lang, target_lang, text) ==
    IF i > Len(s) THEN out
    ELSE IF s[i] = "{"
         THEN IF i < Len(s) /\ s[i + 1] = "{"
              THEN FormatFrom(s, i + 2, Append(out, "{"), source_lang, target_lang, text)
              ELSE LET e == FieldEnd(s, i + 1, 1)
                       name == SubSeq(s, i + 1, e - 1)
                   IN IF e = 0 \/ Len(name) # 1 THEN Raised
                      ELSE IF name[1] \notin FieldNames THEN Raised
                      ELSE FormatFrom(s, e + 1,
                               Append(out, CASE name[1] = "s" -> source_lang
                                             [] name[1] = "g" -> target_lang
                                             [] OTHER -> text),
                               source_lang, target_lang, text)
    ELSE IF s[i] = "}"
         THEN IF i < Len(s) /\ s[i + 1] = "}"
              THEN FormatFrom(s, i + 2, Append(out, "}"), source_lang, target_lang, text)
              ELSE Raised
    ELSE FormatFrom(s, i + 1, Append(out, s[i]), source_lang, target_lang, text)

\* The hardcoded minimal template around the text.
MinimalPrompt(text) ==
    << "minimal", "<SOURCE_TEXT>", "nl", text, "nl", "</SOURCE_TEXT>" >>

\* format_prompt without its try/except: what template.format raises leaves it.
format_prompt_unguarded(template, source_lang, target_lang, text) ==
    FormatFrom(template, 1, <<>>, source_lang, target_lang, text)

format_prompt(template, source_lang, target_lang, text) ==
    LET formatted == FormatFrom(template, 1, <<>>, source_lang, target_lang, text)
    IN IF formatted = Raised THEN MinimalPrompt(text) ELSE formatted

PromptInit ==
    /\ p_template \in UNION {[1..k -> TemplateChars] : k \in 0..MaxTemplate}
    /\ p_text \in PromptTexts
    /\ p_out = <<>>
    /\ p_pc = "input"
    /\ ChunkIdle
    /\ MergeIdle
    /\ OrchIdle

CallFormatPrompt ==
    /\ p_pc = "input"
    /\ p_out' = format_prompt(p_template, "SRC", "TGT", p_text)
    /\ p_pc' = "done"
    /\ UNCHANGED << p_template, p_text, c_text, c_budget, c_pref, c_out, c_est, c_pc,
                    mvars, ovars >>

PromptNext == CallFormatPrompt

PromptSpec == PromptInit /\ [][PromptNext]_vars

\* ---------------------------------------------------------- points of decision

\* A loop that runs once more than range(self.max_retries).
LoopExhaustedLate(attempt, max_retries) == attempt > max_retries

\* A loop that tests its bound after the body: the first attempt is always made.
LoopExhaustedAfterFirst(attempt, max_retries) ==
    attempt >= 1 /\ attempt >= max_retries

\* `for attempt in range(self.max_retries)`: the loop is over.
LoopExhausted(attempt, max_retries) == attempt >= max_retries

\* `if attempt < self.max_retries - 1`: another attempt follows this failure.
CanRetry(attempt, max_retries) == attempt < max_retries - 1

\* A loop head that does not look at should_stop.
StopNeverObserved(flag) == FALSE

\* `if self.should_stop:` at the head of TranslationThread.run's loop.
StopObserved(flag) == flag

\* translate_file without its `except Exception`: the exception leaves it.
TfOnExceptionPropagates == "raised"

\* translate_file's `except Exception`: the exception becomes the result False.
TfOnException == "false"

\* translate_file without the `else: return False` of its chunk loop.
AfterChunkAlways(ret) == "append"

\* `if translated_chunk is not None:` in place of the truth test: an empty
\* string is kept as a translation.
AfterChunkUnlessNone(ret) == IF ret = "none" THEN "return_false" ELSE "append"

\* `if translated_chunk:` in translate_file: the text is kept, or the file fails.
AfterChunk(ret) == IF ret = "text" THEN "append" ELSE "return_false"

\* 2 ** attempt
RECURSIVE Pow2(_)
Pow2(n) == IF n <= 0 THEN 1 ELSE 2 * Pow2(n - 1)

\* ------------------------------------------------------------------- a batch run

NoPos == << 0, 0, 0, 0, "other" >>

\* What is recorded of the current document starts anew.
NewDocument ==
    /\ w_nseg' = 0
    /\ w_content' = "none"
    /\ tf_result' = "none"
    /\ sent' = 0
    /\ written' = 0
    /\ g_between' = 0
    /\ g_inflight' = 0
    /\ g_failed' = 0
    /\ g_interrupted' = FALSE

\* MainWindow.start_translation (a click on start_btn: a new TranslationThread is
\* started and the button disabled) or a call of TranslationManager.translate_files
\* by a caller whose earlier call has returned. A program uses its
\* TranslationManager in one of the two ways.
StartRun(m, p, r, n) ==
    /\ IF m = "thread" THEN start_enabled ELSE w_pc \in RestPcs
    /\ u_pc = "idle"
    /\ run < MaxRuns
    /\ run >= 1 => m = mode
    /\ m = "thread" => n >= 1
    /\ start_enabled' = IF m = "thread" THEN FALSE ELSE start_enabled
    /\ run' = run + 1
    /\ mode' = m
    /\ provider' = p
    /\ cfg_retries' = r
    /\ total' = n
    /\ w_pc' = IF m = "thread" THEN "t_loop" ELSE "b_loop"
    /\ w_doc' = 0
    /\ should_stop' = FALSE
    /\ stops' = 0
    /\ status' = [d \in Docs |-> <<>>]
    /\ percent' = <<>>
    /\ results' = [d \in Docs |-> "none"]
    /\ callbacks' = <<>>
    /\ NewDocument
    /\ UNCHANGED << w_seg, w_translated, callvars, u_pc, u_pos, g_cancel_reqs, clvars,
                    cvars >>

\* translate_file ends with val: "true", "false", or "raised" (an exception
\* leaves it); its local variables end with it (the number of chunks stays on
\* record until the next document).
TfEnds(val) ==
    /\ tf_result' = val
    /\ w_seg' = 0
    /\ w_translated' = 0
    /\ w_pc' = IF mode = "thread" THEN "t_after"
               ELSE IF val = "raised" THEN "b_crashed" ELSE "b_record"

\* TranslationThread.run, the head of the loop.
ThreadLoop ==
    /\ w_pc = "t_loop"
    /\ IF w_doc = total \/ StopObserved(should_stop)
       THEN /\ w_pc' = "t_end"
            /\ UNCHANGED << w_doc, w_nseg, w_content, status, tf_result, sent, written,
                            g_between, g_inflight, g_failed, g_interrupted >>
       ELSE /\ w_doc' = w_doc + 1
            /\ status' = [status EXCEPT ![w_doc + 1] = Append(@, "translating")]
            /\ w_pc' = "tf_client"
            /\ NewDocument
    /\ UNCHANGED << cfgvars, clvars, w_seg, w_translated, callvars, uvars, percent,
                    results, callbacks, g_cancel_reqs, cvars >>

\* translate_files, the head of the loop.
BatchLoop ==
    /\ w_pc = "b_loop"
    /\ IF w_doc = total
       THEN /\ w_pc' = "b_end"
            /\ UNCHANGED << w_doc, w_nseg, w_content, tf_result, sent, written, g_between,
                            g_inflight, g_failed, g_interrupted >>
       ELSE /\ w_doc' = w_doc + 1
            /\ w_pc' = "tf_client"
            /\ NewDocument
    /\ UNCHANGED << cfgvars, clvars, w_seg, w_translated, callvars, uvars, status,
                    percent, results, callbacks, g_cancel_reqs, cvars >>

\* translate_file: `if not self.llm_client: self.llm_client = self._create_llm_client(config)`
CreateClient ==
    /\ w_pc = "tf_client"
    /\ IF llm_client # "none"
       THEN /\ w_pc' = "tf_read"
            /\ UNCHANGED << clvars, tf_result, tfvars >>
       ELSE IF provider = "unknown"
       THEN /\ TfEnds(TfOnException)
            /\ UNCHANGED << clvars, w_nseg, w_content >>
       ELSE /\ llm_client' = provider
            /\ cl_run' = run
            /\ cl_retries' = cfg_retries
            /\ should_cancel' = FALSE
            /\ current_request' = "none"
            /\ session' = 0
            /\ ol_model' = "requested"
            /\ w_pc' = "tf_read"
            /\ UNCHANGED << tf_result, tfvars >>
    /\ UNCHANGED << cfgvars, w_doc, callvars, uvars, status, percent, results,
                    callbacks, sent, written, gvars, cvars >>

\* translate_file without `if not content.strip(): return False`: blank content
\* reaches chunk_text, which returns no chunk for it.
ReadAndChunkNoBlankCheck(outcome, n) ==
    /\ w_pc = "tf_read"
    /\ CASE outcome = "raise" -> TfEnds(TfOnException) /\ UNCHANGED << w_nseg, w_content >>
         [] outcome = "blank" ->
              /\ w_nseg' = 0
              /\ w_content' = "blank"
              /\ w_seg' = 0
              /\ w_translated' = 0
              /\ w_pc' = "tf_loop"
              /\ UNCHANGED tf_result
         [] outcome = "content" ->
              /\ w_nseg' = n
              /\ w_content' = "text"
              /\ w_seg' = 0
              /\ w_translated' = 0
              /\ w_pc' = "tf_loop"
              /\ UNCHANGED tf_result
    /\ UNCHANGED << cfgvars, clvars, w_doc, callvars, uvars, status, percent, results,
                    callbacks, sent, written, gvars, cvars >>

\* translate_file: read_file, the blank check and chunk_text. The file is
\* unreadable ("raise"), blank, or has content that chunk_text cuts into n chunks.
ReadAndChunk(outcome, n) ==
    /\ w_pc = "tf_read"
    /\ CASE outcome = "raise" -> TfEnds(TfOnException) /\ UNCHANGED << w_nseg, w_content >>
         [] outcome = "blank" -> TfEnds("false") /\ w_content' = "blank" /\ UNCHANGED w_nseg
         [] outcome = "content" ->
              /\ w_nseg' = n
              /\ w_content' = "text"
              /\ w_seg' = 0
              /\ w_translated' = 0
              /\ w_pc' = "tf_loop"
              /\ UNCHANGED tf_result
    /\ UNCHANGED << cfgvars, clvars, w_doc, callvars, uvars, status, percent, results,
                    callbacks, sent, written, gvars, cvars >>

\* OpenAIClient.translate without `self.should_cancel = False` at its head: the
\* flag of an earlier cancel_request is still set when the loop tests it.
NextChunkKeepsFlag ==
    /\ w_pc = "tf_loop"
    /\ IF w_seg = w_nseg
       THEN /\ w_pc' = "tf_write"
            /\ UNCHANGED << w_seg, sent, should_cancel >>
       ELSE /\ w_seg' = w_seg + 1
            /\ sent' = sent + 1
            /\ w_pc' = IF llm_client = "openai" THEN "oa_check" ELSE "ol_tags"
            /\ UNCHANGED should_cancel
    /\ UNCHANGED << cfgvars, llm_client, cl_run, cl_retries, current_request, session,
                    ol_model, w_doc, w_nseg, w_content, w_translated, callvars, uvars, status,
                    percent, results, callbacks, tf_result, written, gvars, cvars >>

\* translate_file, the head of the loop over the chunks: the next chunk's prompt
\* is formatted and llm_client.translate is entered (OpenAIClient.translate resets
\* should_cancel; OllamaClient.translate asks for the model list).
NextChunk ==
    /\ w_pc = "tf_loop"
    /\ IF w_seg = w_nseg
       THEN /\ w_pc' = "tf_write"
            /\ UNCHANGED << w_seg, sent, should_cancel >>
       ELSE /\ w_seg' = w_seg + 1
            /\ sent' = sent + 1
            /\ IF llm_client = "openai"
               THEN /\ should_cancel' = FALSE
                    /\ w_pc' = "oa_check"
               ELSE /\ w_pc' = "ol_tags"
                    /\ UNCHANGED should_cancel
    /\ UNCHANGED << cfgvars, llm_client, cl_run, cl_retries, current_request, session,
                    ol_model, w_doc, w_nseg, w_content, w_translated, callvars, uvars, status,
                    percent, results, callbacks, tf_result, written, gvars, cvars >>

\* translate returns ret to translate_file.
Returns(ret) ==
    /\ w_ret' = ret
    /\ w_wait' = 0
    /\ UNCHANGED w_attempt
    /\ w_pc' = "tf_got"

\* OpenAIClient.translate, the head of the retry loop: the loop is over, the
\* cancellation flag is seen, or the request is sent.
OpenAIAttempt ==
    /\ w_pc = "oa_check"
    /\ IF LoopExhausted(w_attempt, cl_retries) \/ should_cancel
       THEN /\ Returns("none")
            /\ w_last' = IF LoopExhausted(w_attempt, cl_retries) THEN w_last
                          ELSE "cancelled"
            /\ UNCHANGED w_reqs
       ELSE /\ w_reqs' = w_reqs + 1
            /\ w_pc' = "oa_flight"
            /\ w_last' = "none"
            /\ UNCHANGED << w_ret, w_attempt, w_wait >>
    /\ UNCHANGED << cfgvars, clvars, w_doc, tfvars, uvars, outvars, gvars, cvars >>

\* OpenAIClient.translate: the request ends in res.
OpenAIResponse(res) ==
    /\ w_pc = "oa_flight"
    /\ w_last' = Kind(res)
    /\ CASE res = "text" -> Returns("text")
         [] res = "blank" -> Returns("empty")
         [] res \in {"no_choices", "auth_error"} -> Returns("none")
         [] res \in {"rate_limit", "api_error", "conn_error", "timeout", "other_error"} ->
              IF CanRetry(w_attempt, cl_retries)
              THEN /\ w_wait' = IF res = "rate_limit" THEN Pow2(w_attempt) ELSE 1
                   /\ w_pc' = "oa_sleep"
                   /\ UNCHANGED << w_ret, w_attempt >>
              ELSE Returns("none")
    /\ UNCHANGED << cfgvars, clvars, w_doc, tfvars, w_reqs, uvars, outvars, gvars,
                    cvars >>

\* A retry that does not count: the loop goes on with the same attempt number.
OpenAIWakeNoCount ==
    /\ w_pc = "oa_sleep"
    /\ w_wait' = 0
    /\ w_last' = "none"
    /\ w_pc' = "oa_check"
    /\ UNCHANGED << cfgvars, clvars, w_doc, tfvars, w_attempt, w_reqs, w_ret,
                    uvars, outvars, gvars, cvars >>

\* OpenAIClient.translate: time.sleep returns and the loop goes on.
OpenAIWake ==
    /\ w_pc = "oa_sleep"
    /\ w_attempt' = w_attempt + 1
    /\ w_wait' = 0
    /\ w_last' = "none"
    /\ w_pc' = "oa_check"
    /\ UNCHANGED << cfgvars, clvars, w_doc, tfvars, w_reqs, w_ret, uvars,
                    outvars, gvars, cvars >>

\* ensure_model_available that logs the missing model and leaves self.model as
\* it is.
OllamaTagsKeepsModel(res) ==
    /\ w_pc = "ol_tags"
    /\ CASE res = "listed" ->
              w_pc' = "ol_start" /\ UNCHANGED << w_ret, w_attempt, w_wait, w_last, ol_model >>
         [] res = "substitute" ->
              w_pc' = "ol_start" /\ w_last' = Kind(res)
              /\ UNCHANGED << w_ret, w_attempt, w_wait, ol_model >>
         [] res \in {"unavailable", "tags_error"} ->
              Returns("none") /\ w_last' = Kind(res) /\ UNCHANGED ol_model
    /\ UNCHANGED << cfgvars, llm_client, cl_run, cl_retries, should_cancel,
                    current_request, session, w_doc, tfvars, w_reqs, uvars, outvars,
                    gvars, cvars >>

\* OllamaClient.translate: ensure_model_available. The registry lists the model,
\* lists others only (the first one is taken), lists none or answers with an
\* error status ("unavailable"), or cannot be reached in time ("tags_error": the
\* exception of requests.get is caught and get_available_models returns []).
OllamaTags(res) ==
    /\ w_pc = "ol_tags"
    /\ CASE res = "listed" ->
              w_pc' = "ol_start" /\ UNCHANGED << w_ret, w_attempt, w_wait, w_last, ol_model >>
         [] res = "substitute" ->
              w_pc' = "ol_start" /\ ol_model' = "first" /\ w_last' = Kind(res)
              /\ UNCHANGED << w_ret, w_attempt, w_wait >>
         [] res \in {"unavailable", "tags_error"} ->
              Returns("none") /\ w_last' = Kind(res) /\ UNCHANGED ol_model
    /\ UNCHANGED << cfgvars, llm_client, cl_run, cl_retries, should_cancel,
                    current_request, session, w_doc, tfvars, w_reqs, uvars, outvars,
                    gvars, cvars >>

\* OllamaClient.translate, the head of the retry loop: the loop is over or the
\* request is posted on the session.
OllamaAttempt ==
    /\ w_pc = "ol_start"
    /\ IF LoopExhausted(w_attempt, cl_retries)
       THEN /\ Returns("none")
            /\ UNCHANGED << w_reqs, w_last >>
       ELSE /\ w_reqs' = w_reqs + 1
            /\ w_pc' = "ol_flight"
            /\ w_last' = IF w_last = "substituted" THEN w_last ELSE "none"
            /\ UNCHANGED << w_ret, w_attempt, w_wait >>
    /\ UNCHANGED << cfgvars, clvars, w_doc, tfvars, uvars, outvars, gvars, cvars >>

\* A retry loop `while True` whose `continue` does not count the attempt.
OllamaResponseNoCount(res) ==
    /\ w_pc = "ol_flight"
    /\ current_request' =
           IF res \in {"text", "blank", "no_field", "json_request_error", "json_error"}
           THEN "ok"
           ELSE IF res \in {"http_error", "auth_error"} THEN "bad" ELSE current_request
    /\ w_last' = Kind(res)
    /\ CASE res = "text" -> Returns("text")
         [] res = "blank" -> Returns("empty")
         [] res \in {"no_field", "json_error"} -> Returns("none")
         [] res \in {"http_error", "auth_error", "conn_error", "timeout",
                     "request_error", "json_request_error", "other_error"} ->
              IF CanRetry(w_attempt, cl_retries)
              THEN /\ w_pc' = "ol_start"
                   /\ UNCHANGED << w_ret, w_wait, w_attempt >>
              ELSE Returns("none")
    /\ UNCHANGED << cfgvars, llm_client, cl_run, cl_retries, should_cancel, session,
                    ol_model, w_doc, tfvars, w_reqs, uvars, outvars, gvars, cvars >>

\* OllamaClient.translate: the request ends in res. A response, whatever its
\* status, is stored in current_request; an exception of session.post leaves
\* current_request as it was. response.json() raises an exception that is a
\* RequestException in requests >= 2.27 ("json_request_error", retried) and a
\* plain JSONDecodeError before ("json_error", not retried).
OllamaResponse(res) ==
    /\ w_pc = "ol_flight"
    /\ current_request' =
           IF res \in {"text", "blank", "no_field", "json_request_error", "json_error"}
           THEN "ok"
           ELSE IF res \in {"http_error", "auth_error"} THEN "bad" ELSE current_request
    /\ w_last' = Kind(res)
    /\ CASE res = "text" -> Returns("text")
         [] res = "blank" -> Returns("empty")
         [] res \in {"no_field", "json_error"} -> Returns("none")
         [] res \in {"http_error", "auth_error", "conn_error", "timeout",
                     "request_error", "json_request_error", "other_error"} ->
              IF CanRetry(w_attempt, cl_retries)
              THEN /\ w_attempt' = w_attempt + 1
                   /\ w_pc' = "ol_start"
                   /\ UNCHANGED << w_ret, w_wait >>
              ELSE Returns("none")
    /\ UNCHANGED << cfgvars, llm_client, cl_run, cl_retries, should_cancel, session,
                    ol_model, w_doc, tfvars, w_reqs, uvars, outvars, gvars, cvars >>

\* translate_file: `if translated_chunk:` the text is appended, else the file fails.
ChunkDone ==
    /\ w_pc = "tf_got"
    /\ g_failed' = IF w_ret = "none" THEN w_seg ELSE g_failed
    /\ g_interrupted' = (g_interrupted \/ w_last = "cancelled")
    /\ IF AfterChunk(w_ret) = "append"
       THEN /\ w_translated' = w_translated + 1
            /\ w_pc' = "tf_sleep"
            /\ UNCHANGED << tf_result, w_seg >>
       ELSE TfEnds("false")
    /\ w_ret' = "none"
    /\ w_reqs' = 0
    /\ w_attempt' = 0
    /\ w_last' = "none"
    /\ g_cancel_reqs' = -1
    /\ UNCHANGED << cfgvars, clvars, w_doc, w_nseg, w_content, w_wait, uvars, status,
                    percent, results, callbacks, sent, written, g_between, g_inflight,
                    cvars >>

\* translate_file: time.sleep(0.5) after a translated chunk returns.
ChunkPause ==
    /\ w_pc = "tf_sleep"
    /\ w_pc' = "tf_loop"
    /\ UNCHANGED << cfgvars, clvars, w_doc, tfvars, callvars, uvars, outvars, gvars,
                    cvars >>

\* translate_file: _merge_chunks and write_file, which writes or raises.
MergeAndWrite(ok) ==
    /\ w_pc = "tf_write"
    /\ IF ok
       THEN /\ written' = written + 1
            /\ TfEnds("true")
       ELSE /\ TfEnds(TfOnException)
            /\ UNCHANGED written
    /\ UNCHANGED << cfgvars, clvars, w_doc, w_nseg, w_content, callvars, uvars, status, percent,
                    results, callbacks, sent, gvars, cvars >>

\* A stop check after translate_file without its `break`: the status "已停止" is
\* followed by the status of translate_file's result.
ThreadAfterNoBreak ==
    /\ w_pc = "t_after"
    /\ status' = [status EXCEPT ![w_doc] =
                     Append(IF should_stop THEN Append(@, "stopped") ELSE @,
                            CASE tf_result = "true" -> "done"
                              [] tf_result = "false" -> "failed"
                              [] OTHER -> "error")]
    /\ w_pc' = "t_progress"
    /\ UNCHANGED << cfgvars, clvars, w_doc, tfvars, callvars, uvars, percent, results,
                    callbacks, tf_result, sent, written, gvars, cvars >>

\* A loop that a failed document ends: `break` after the status "失败" or "错误".
ThreadAfterStopsOnFailure ==
    /\ w_pc = "t_after"
    /\ IF should_stop
       THEN /\ status' = [status EXCEPT ![w_doc] = Append(@, "stopped")]
            /\ w_pc' = "t_end"
       ELSE /\ status' = [status EXCEPT ![w_doc] =
                            Append(@, CASE tf_result = "true" -> "done"
                                        [] tf_result = "false" -> "failed"
                                        [] OTHER -> "error")]
            /\ w_pc' = IF tf_result = "true" THEN "t_progress" ELSE "t_end"
    /\ UNCHANGED << cfgvars, clvars, w_doc, tfvars, callvars, uvars, percent, results,
                    callbacks, tf_result, sent, written, gvars, cvars >>

\* TranslationThread.run after translate_file: the stop check, then the status.
ThreadAfter ==
    /\ w_pc = "t_after"
    /\ IF should_stop
       THEN /\ status' = [status EXCEPT ![w_doc] = Append(@, "stopped")]
            /\ w_pc' = "t_end"
       ELSE /\ status' = [status EXCEPT ![w_doc] =
                            Append(@, CASE tf_result = "true" -> "done"
                                        [] tf_result = "false" -> "failed"
                                        [] OTHER -> "error")]
            /\ w_pc' = "t_progress"
    /\ UNCHANGED << cfgvars, clvars, w_doc, tfvars, callvars, uvars, percent, results,
                    callbacks, tf_result, sent, written, gvars, cvars >>

\* TranslationThread.run: progress_updated.emit(int((i + 1) / total_files * 100))
ThreadProgress ==
    /\ w_pc = "t_progress"
    /\ percent' = Append(percent, (w_doc * 100) \div total)
    /\ w_pc' = "t_loop"
    /\ UNCHANGED << cfgvars, clvars, w_doc, tfvars, callvars, uvars, status, results,
                    callbacks, tf_result, sent, written, gvars, cvars >>

\* translate_files: results[file_path] = success
BatchRecord ==
    /\ w_pc = "b_record"
    /\ results' = [results EXCEPT ![w_doc] = tf_result]
    /\ w_pc' = "b_callback"
    /\ UNCHANGED << cfgvars, clvars, w_doc, tfvars, callvars, uvars, status, percent,
                    callbacks, tf_result, sent, written, gvars, cvars >>

\* A callback that is given i, the index from 0, as the number of documents done.
BatchCallbackFromZero ==
    /\ w_pc = "b_callback"
    /\ callbacks' = Append(callbacks, << w_doc - 1, total, w_doc, tf_result >>)
    /\ w_pc' = "b_loop"
    /\ UNCHANGED << cfgvars, clvars, w_doc, tfvars, callvars, uvars, status, percent,
                    results, tf_result, sent, written, gvars, cvars >>

\* translate_files: progress_callback(i + 1, total_files, file_path, success)
BatchCallback ==
    /\ w_pc = "b_callback"
    /\ callbacks' = Append(callbacks, << w_doc, total, w_doc, tf_result >>)
    /\ w_pc' = "b_loop"
    /\ UNCHANGED << cfgvars, clvars, w_doc, tfvars, callvars, uvars, status, percent,
                    results, tf_result, sent, written, gvars, cvars >>

\* ------------------------------------------------------------------ cancellation

\* TranslationManager.cancel_current_request and the client's cancel_request:
\* OpenAIClient sets its flag; OllamaClient, when current_request is truthy, closes
\* its session, makes a new one and forgets current_request.
CancelRequest ==
    /\ CASE llm_client = "openai" ->
              /\ should_cancel' = TRUE
              /\ UNCHANGED << current_request, session >>
         [] llm_client = "ollama" ->
              /\ IF current_request = "ok"
                 THEN session' = session + 1 /\ current_request' = "none"
                 ELSE UNCHANGED << current_request, session >>
              /\ UNCHANGED should_cancel
         [] OTHER -> UNCHANGED << should_cancel, current_request, session >>
    /\ g_cancel_reqs' = IF llm_client # "none" /\ InTranslate /\ g_cancel_reqs = -1
                        THEN w_reqs ELSE g_cancel_reqs

\* MainWindow.stop_translation (a click on stop_btn) calls TranslationThread.stop:
\* self.should_stop = True
StopSetFlag ==
    /\ mode = "thread"
    /\ run >= 1
    /\ ~start_enabled
    /\ u_pc = "idle"
    /\ stops < MaxStops
    /\ should_stop' = TRUE
    /\ stops' = stops + 1
    /\ u_pos' = Pos
    /\ u_pc' = "stop_cancel"
    /\ UNCHANGED << cfgvars, clvars, wvars, start_enabled, outvars, gvars, cvars >>

\* TranslationThread.stop: self.translation_manager.cancel_current_request()
StopCancel ==
    /\ u_pc = "stop_cancel"
    /\ CancelRequest
    /\ g_between' = IF u_pos = Pos /\ Phase = "between"
                    THEN w_seg ELSE g_between
    /\ g_inflight' = IF u_pos = Pos /\ Phase = "flight"
                     THEN w_seg ELSE g_inflight
    /\ u_pos' = NoPos
    /\ u_pc' = "stop_wait"
    /\ UNCHANGED << cfgvars, llm_client, cl_run, cl_retries, ol_model, wvars,
                    should_stop, stops, start_enabled, outvars, g_failed, g_interrupted,
                    cvars >>

\* A stop that gives the start button back at once.
StopWaitEnablesStart ==
    /\ u_pc = "stop_wait"
    /\ u_pc' = IF w_pc \in RestPcs THEN "idle" ELSE "stop_blocked"
    /\ start_enabled' = TRUE
    /\ UNCHANGED << cfgvars, clvars, wvars, should_stop, stops, u_pos, outvars, gvars,
                    cvars >>

\* TranslationThread.stop: `if self.isRunning():` the caller enters self.wait(5000)
\* when run() has not returned yet, else stop returns.
StopWait ==
    /\ u_pc = "stop_wait"
    /\ u_pc' = IF w_pc \in RestPcs THEN "idle" ELSE "stop_blocked"
    /\ UNCHANGED << cfgvars, clvars, wvars, should_stop, stops, u_pos, start_enabled,
                    outvars, gvars, cvars >>

\* TranslationThread.stop: self.wait(5000) returns, the thread having ended or the
\* five seconds being over, and stop returns.
StopWaitOver ==
    /\ u_pc = "stop_blocked"
    /\ u_pc' = "idle"
    /\ UNCHANGED << cfgvars, clvars, wvars, should_stop, stops, u_pos, start_enabled,
                    outvars, gvars, cvars >>

\* MainWindow.translation_finished, the slot of the thread's finished signal, run
\* by the event loop of the caller's thread once run() has returned.
TranslationFinished ==
    /\ mode = "thread"
    /\ w_pc = "t_end"
    /\ u_pc = "idle"
    /\ ~start_enabled
    /\ start_enabled' = TRUE
    /\ UNCHANGED << cfgvars, clvars, wvars, should_stop, stops, u_pos, u_pc, outvars,
                    gvars, cvars >>

\* A caller of translate_files has no TranslationThread: it cancels with
\* TranslationManager.cancel_current_request itself.
CancelDirect ==
    /\ mode = "batch"
    /\ run >= 1
    /\ stops < MaxStops
    /\ stops' = stops + 1
    /\ CancelRequest
    /\ UNCHANGED << cfgvars, llm_client, cl_run, cl_retries, ol_model, wvars,
                    should_stop, u_pc, u_pos, start_enabled, outvars, g_between,
                    g_inflight, g_failed, g_interrupted, cvars >>

\* ------------------------------------------------------------- specification

\* The first batch run after the construction of the TranslationManager.
FirstRun(m, p, r, n) == run = 0 /\ StartRun(m, p, r, n)

\* Every step of the worker and of the caller that cancels.
Step ==
    \/ ThreadLoop
    \/ BatchLoop
    \/ CreateClient
    \/ \E o \in {"raise", "blank", "content"}, n \in 1..MaxSegs : ReadAndChunk(o, n)
    \/ NextChunk
    \/ OpenAIAttempt
    \/ \E res \in OpenAIResults : OpenAIResponse(res)
    \/ OpenAIWake
    \/ \E res \in TagsResults : OllamaTags(res)
    \/ OllamaAttempt
    \/ \E res \in OllamaResults : OllamaResponse(res)
    \/ ChunkDone
    \/ ChunkPause
    \/ \E ok \in BOOLEAN : MergeAndWrite(ok)
    \/ ThreadAfter
    \/ ThreadProgress
    \/ BatchRecord
    \/ BatchCallback
    \/ StopSetFlag
    \/ StopCancel
    \/ StopWait
    \/ StopWaitOver
    \/ TranslationFinished
    \/ CancelDirect

\* One batch run on a new TranslationManager.
Next ==
    \/ \E m \in Modes, p \in Providers, r \in 0..MaxRetries, n \in 0..NumDocs :
           FirstRun(m, p, r, n)
    \/ Step

Spec == Init /\ [][Next]_vars

\* The steps of the thread that runs the batch (TranslationThread.run, or the
\* caller inside translate_files): each is a piece of straight-line code, a
\* time.sleep, or a network call made with a timeout.
WorkerStep ==
    \/ ThreadLoop
    \/ BatchLoop
    \/ CreateClient
    \/ \E o \in {"raise", "blank", "content"}, n \in 1..MaxSegs : ReadAndChunk(o, n)
    \/ NextChunk
    \/ OpenAIAttempt
    \/ \E res \in OpenAIResults : OpenAIResponse(res)
    \/ OpenAIWake
    \/ \E res \in TagsResults : OllamaTags(res)
    \/ OllamaAttempt
    \/ \E res \in OllamaResults : OllamaResponse(res)
    \/ ChunkDone
    \/ ChunkPause
    \/ \E ok \in BOOLEAN : MergeAndWrite(ok)
    \/ ThreadAfter
    \/ ThreadProgress
    \/ BatchRecord
    \/ BatchCallback

\* One batch run whose thread keeps running: every network call returns or
\* times out and every sleep ends, so a step of the worker that stays possible
\* is taken. Nothing is asked of the user's clicks.
LiveSpec == Spec /\ WF_vars(WorkerStep)

\* Batch runs one after the other on the same TranslationManager.
RerunNext ==
    \/ \E m \in Modes, p \in Providers, r \in 0..MaxRetries, n \in 0..NumDocs :
           StartRun(m, p, r, n)
    \/ Step

RerunSpec == Init /\ [][RerunNext]_vars

\* The steps of a run of the GUI: TranslationThread.run on the worker thread,
\* TranslationThread.stop and translation_finished on the GUI thread.
GuiStep ==
    \/ ThreadLoop
    \/ CreateClient
    \/ \E o \in {"raise", "blank", "content"}, n \in 1..MaxSegs : ReadAndChunk(o, n)
    \/ NextChunk
    \/ OpenAIAttempt
    \/ \E res \in OpenAIResults : OpenAIResponse(res)
    \/ OpenAIWake
    \/ \E res \in TagsResults : OllamaTags(res)
    \/ OllamaAttempt
    \/ \E res \in OllamaResults : OllamaResponse(res)
    \/ ChunkDone
    \/ ChunkPause
    \/ \E ok \in BOOLEAN : MergeAndWrite(ok)
    \/ ThreadAfter
    \/ ThreadProgress
    \/ StopSetFlag
    \/ StopCancel
    \/ StopWait
    \/ StopWaitOver
    \/ TranslationFinished

\* One run of the GUI: a click on start_btn, then the steps of the run.
GuiNext ==
    \/ \E p \in Providers, r \in 0..MaxRetries, n \in 0..NumDocs :
           FirstRun("thread", p, r, n)
    \/ GuiStep

GuiSpec == Init /\ [][GuiNext]_vars

\* ------------------------------------------------------------------- claims

\* The characters of s that are not whitespace, in order.
NonWs(s) == SelectSeq(s, LAMBDA c : c \notin Whitespace)

\* The concatenation of the texts of a list.
RECURSIVE Flatten(_)
Flatten(xs) == IF xs = <<>> THEN <<>> ELSE Head(xs) \o Flatten(Tail(xs))

\* The statuses file_completed emitted for document d that end it.
Terminal == {"done", "failed", "error", "stopped"}
TerminalCount(d) == Cardinality({i \in DOMAIN status[d] : status[d][i] \in Terminal})
HasStatus(d, st) == \E i \in DOMAIN status[d] : status[d][i] = st
CallbackCount(d) == Cardinality({i \in DOMAIN callbacks : callbacks[i][3] = d})

\* C1: the chunks chunk_text returns, concatenated in order, hold exactly the
\* non-whitespace characters of the text, in the same order (nothing is dropped,
\* duplicated or reordered).
C1_RoundTrip == c_pc = "done" => NonWs(Flatten(c_out)) = NonWs(c_text)

\* C2: when the translate call of chunk k of a document returns None,
\* translate_file returns False, no later chunk is sent to the backend and no
\* output file is written; the document is never reported as translated.
C2_FailedChunkFailsFile ==
    g_failed > 0 =>
        /\ sent = g_failed
        /\ written = 0
        /\ tf_result = "false"
        /\ results[w_doc] # "true"
        /\ ~HasStatus(w_doc, "done")

\* Chunk 1 of a document of two chunks has failed and translate_file has returned.
C2_Witness ==
    /\ g_failed = 1
    /\ w_nseg = 2
    /\ tf_result = "false"
    /\ w_pc \in {"t_after", "b_record"}

\* C3: when a stop (should_stop set, then cancel_current_request) runs after the
\* translate call of chunk k returned and before the call of chunk k+1 begins, no
\* call is made for chunk k+1, nothing is written and the document is not done.
C3_CancelBetweenChunks ==
    g_between > 0 =>
        /\ sent <= g_between
        /\ written = 0
        /\ tf_result # "true"
        /\ ~HasStatus(w_doc, "done")

\* C4: when a stop runs while a request of chunk k's translate call is on the
\* network, the document is never completed: no later chunk is sent, no output
\* is written, translate_file does not succeed.
C4_CancelInFlight ==
    g_inflight > 0 =>
        /\ sent <= g_inflight
        /\ written = 0
        /\ tf_result # "true"
        /\ ~HasStatus(w_doc, "done")

\* C5: every chunk chunk_text returns has an estimate within the budget.
C5_WithinBudget ==
    c_pc = "done" => \A i \in DOMAIN c_out : estimate_tokens(c_out[i]) <= c_budget

\* C6: no exception leaves translate_file or the batch loop, and every document
\* of the list gets exactly one outcome: translate_files has one result and one
\* callback per document when it returns, TranslationThread.run has emitted one
\* final status per document when it ends without a stop, and it never emits two.
C6_OneOutcomePerDocument ==
    /\ tf_result # "raised"
    /\ w_pc # "b_crashed"
    /\ \A d \in Docs : TerminalCount(d) <= 1 /\ CallbackCount(d) <= 1
    /\ w_pc = "b_end" =>
           \A d \in 1..total : results[d] \in {"true", "false"} /\ CallbackCount(d) = 1
    /\ (w_pc = "t_end" /\ ~should_stop) => \A d \in 1..total : TerminalCount(d) = 1
    /\ w_pc = "t_end" => \A d \in 1..w_doc : TerminalCount(d) = 1

\* translate_files has returned for a list of NumDocs documents, the first of
\* which failed and the last of which was translated.
C6_Witness ==
    /\ w_pc = "b_end"
    /\ total = NumDocs
    /\ results[1] = "false"
    /\ results[NumDocs] = "true"

\* C7: when the run of a stopped batch ends, every document of the list that was
\* not started has been given the status "stopped".
C7_NotStartedMarkedCancelled ==
    (w_pc = "t_end" /\ should_stop) => \A d \in (w_doc + 1)..total : HasStatus(d, "stopped")

\* C8: once should_stop is set, TranslationThread.run starts no further document
\* (the index of the current document does not move any more, so no later file is
\* read, chunked or sent to the backend).
C8_NoStartAfterStop == [][(should_stop /\ run' = run) => w_doc' = w_doc]_vars

\* The run of a stopped batch has ended with a document of the list not started.
C8_Witness ==
    /\ should_stop
    /\ w_pc = "t_end"
    /\ w_doc < total
    /\ \A d \in (w_doc + 1)..total : status[d] = <<>>

\* C9: once cancel_request was invoked during a translate call, that call sends
\* no further generation request and returns None.
C9_NoAttemptAfterCancel ==
    g_cancel_reqs >= 0 =>
        /\ w_reqs = g_cancel_reqs
        /\ w_pc = "tf_got" => w_ret = "none"

\* C10: one translate call sends at most max_retries generation requests, and its
\* loop variable never passes max_retries.
C10_AtMostMaxRetries ==
    /\ w_reqs <= cl_retries
    /\ w_attempt <= cl_retries
    /\ w_pc \in FlightPcs => w_reqs = w_attempt + 1

\* A translate call has returned None after max_retries requests, all failed.
C10_Witness ==
    /\ w_pc = "tf_got"
    /\ w_ret = "none"
    /\ cl_retries = MaxRetries
    /\ w_reqs = MaxRetries

\* C11: a translate call that returns None because of a transient error (the
\* connection fails, the request times out, the rate limit is hit; also while
\* OllamaClient asks the registry for its models), with no cancellation during
\* the call, has sent max_retries generation requests.
C11_TransientRetried ==
    (/\ w_pc = "tf_got"
     /\ w_ret = "none"
     /\ w_last \in {"transient", "rate_limit"}
     /\ g_cancel_reqs = -1) => w_reqs = cl_retries

\* C12: as soon as a request of a translate call ends in an authentication
\* failure, the call has returned None: no further attempt follows.
C12_AuthNotRetried == w_last = "auth" => (w_pc = "tf_got" /\ w_ret = "none")

\* C13: when the request of attempt k of a translate call is answered with a text
\* (the attempts before it having failed and been retried), translate returns
\* that text, k requests were sent, k <= max_retries, and translate_file keeps the
\* text as the chunk's translation: no failure is recorded for the chunk.
C13_SuccessAfterRetries ==
    [][w_last = "ok" =>
          /\ w_pc = "tf_got"
          /\ w_ret = "text"
          /\ w_reqs = w_attempt + 1
          /\ w_reqs <= cl_retries
          /\ g_failed = 0
          /\ w_pc' # w_pc =>
                 /\ w_pc' = "tf_sleep"
                 /\ w_translated' = w_translated + 1
                 /\ g_failed' = 0]_vars

\* The last of max_retries attempts was answered with a text, after retries.
C13_Witness ==
    /\ w_last = "ok"
    /\ w_pc = "tf_got"
    /\ cl_retries = MaxRetries
    /\ w_attempt = MaxRetries - 1
    /\ w_reqs = MaxRetries

\* C14: a document that fails does not end the batch. translate_files returns
\* (no exception leaves its loop) with a result for every document of the list;
\* TranslationThread.run, when no stop was requested, ends only after it has
\* started every document of the list and emitted a final status for each.
C14_FailureDoesNotStopBatch ==
    /\ w_pc # "b_crashed"
    /\ w_pc = "b_end" =>
           /\ w_doc = total
           /\ \A d \in 1..total : results[d] \in {"true", "false"}
    /\ (w_pc = "t_end" /\ ~should_stop) =>
           /\ w_doc = total
           /\ \A d \in 1..total : HasStatus(d, "translating") /\ TerminalCount(d) = 1

\* A run that was not stopped has ended with every document of the list failed.
C14_Witness ==
    /\ w_pc = "t_end"
    /\ ~should_stop
    /\ total = NumDocs
    /\ \A d \in Docs : HasStatus(d, "failed")

\* C15: with an unknown provider in the configuration (and no client built
\* before), the error is not turned into the failure of a document: no document
\* has translate_file return False, none is recorded or reported as failed.
C15_UnknownProviderBeforeWork ==
    (run >= 1 /\ provider = "unknown" /\ llm_client = "none") =>
        /\ tf_result # "false"
        /\ \A d \in Docs : ~HasStatus(d, "failed") /\ results[d] # "false"

\* C16: what is reported of a document tells a cancellation from a failure. A
\* document one of whose translate calls ended because it saw the cancellation
\* does not have translate_file return False, the value of a failure, and is not
\* recorded or reported as failed; a document whose chunk failed while no
\* cancellation was requested is not reported as stopped.
C16_CancelledIsNotFailed ==
    /\ g_interrupted =>
           /\ tf_result # "false"
           /\ results[w_doc] # "false"
           /\ ~HasStatus(w_doc, "failed")
    /\ (g_failed > 0 /\ stops = 0) => ~HasStatus(w_doc, "stopped")

\* C17: one document and one translate call at a time. A new TranslationThread can
\* be started (start_btn is enabled) only when no run() is under way; within a
\* document the translate call of chunk i is the i-th call made for the document
\* and is made only after the calls of the chunks 1..i-1 have all returned a text.
C17_OneAtATime ==
    /\ (mode = "thread" /\ start_enabled) => w_pc \in RestPcs
    /\ InTranslate =>
           /\ w_seg \in 1..w_nseg
           /\ sent = w_seg
           /\ w_translated = w_seg - 1
           /\ g_failed = 0

\* A request of the second chunk's call is on the network, after the caller went
\* through a whole stop.
C17_Witness ==
    /\ w_pc \in FlightPcs
    /\ w_seg = 2
    /\ w_translated = 1
    /\ should_stop
    /\ u_pc = "idle"

\* C19: the documents are processed in the order of the list and translate_files
\* calls progress_callback once after each document, after the document's result
\* is recorded: the i-th call is (i, N, document i, result of document i), and N
\* calls have been made when translate_files returns. TranslationThread.run starts
\* its documents in the same order and emits the percentage of the documents done.
C19_ProgressInOrder ==
    /\ \A i \in DOMAIN callbacks :
           /\ results[i] \in {"true", "false"}
           /\ callbacks[i] = << i, total, i, results[i] >>
    /\ Len(callbacks) <= w_doc
    /\ (mode = "batch" /\ w_pc \in {"b_loop", "b_end"}) => Len(callbacks) = w_doc
    /\ w_pc = "b_end" => Len(callbacks) = total
    /\ \A d \in Docs : (status[d] # << >> \/ results[d] # "none") => d <= w_doc
    /\ \A d \in 1..w_doc : mode = "thread" => status[d] # << >>
    /\ \A i \in DOMAIN percent : percent[i] = (i * 100) \div total
    /\ Len(percent) <= w_doc

\* translate_files has returned after NumDocs documents, the last of which failed.
C19_Witness ==
    /\ w_pc = "b_end"
    /\ total = NumDocs
    /\ Len(callbacks) = NumDocs
    /\ callbacks[NumDocs] = << NumDocs, NumDocs, NumDocs, "false" >>

\* C20: the caller of TranslationThread.stop is never inside a wait for the worker.
C20_StopNeverBlocks == u_pc # "stop_blocked"

\* The texts of a list joined by one blank line ("\n\n") between two of them.
RECURSIVE JoinBlankLine(_)
JoinBlankLine(xs) ==
    IF xs = << >> THEN << >>
    ELSE IF Len(xs) = 1 THEN xs[1]
    ELSE xs[1] \o << "nl", "nl" >> \o JoinBlankLine(Tail(xs))

C21_BlankFailsEarly ==
    w_content = "blank" =>
        /\ tf_result = "false"
        /\ w_nseg = 0
        /\ sent = 0
        /\ written = 0
        /\ w_reqs = 0
        /\ ~InTranslate
        /\ w_pc \notin {"tf_loop", "tf_sleep", "tf_write"}

C21_Witness ==
    /\ w_content = "blank"
    /\ w_doc = 2
    /\ w_pc = "t_progress"
    /\ HasStatus(2, "failed")
    /\ HasStatus(1, "done")

\* C22: a text that is not blank and whose estimate is within the budget comes
\* back as exactly one chunk, equal to the text without its leading and trailing
\* whitespace.
C22_SmallInputOneSegment ==
    (c_pc = "done" /\ Strip(c_text) # <<>> /\ estimate_tokens(c_text) <= c_budget)
        => c_out = << Strip(c_text) >>

\* C23: chunk_text returns no chunk for a blank text and, for a text that is
\* not blank, at least one chunk, none of them blank (its call returns for
\* every text and every budget from 1 on: each is one evaluated step).
C23_BlankOrNonBlankChunks ==
    c_pc = "done" =>
        IF Strip(c_text) = <<>>
        THEN c_out = <<>>
        ELSE /\ Len(c_out) >= 1
             /\ \A i \in 1..Len(c_out) : Strip(c_out[i]) # <<>>

\* A text without any paragraph or sentence delimiter, over the budget, cut by
\* size into two chunks.
C23_Witness ==
    /\ c_pc = "done"
    /\ c_pref = DefaultBoundary
    /\ \A i \in 1..Len(c_text) : c_text[i] \in {"x", "zh", "sp"}
    /\ estimate_tokens(c_text) > c_budget
    /\ c_text[Len(c_text)] = "sp"
    /\ Len(c_out) = 2

\* The characters of seg that are not whitespace stand at t[p], t[p+1], ...
OccursAt(seg, t, p) ==
    /\ p + Len(seg) - 1 <= Len(t)
    /\ \A k \in 1..Len(seg) : t[p + k - 1] = seg[k]

\* The chunks of segs occur in t one after the other, none overlapping the one
\* before it, from position from on (whitespace apart): each chunk is looked for
\* at the first place behind its predecessor.
RECURSIVE InOrderFrom(_, _, _)
InOrderFrom(segs, t, from) ==
    IF segs = <<>> THEN TRUE
    ELSE LET seg == NonWs(Head(segs))
             P == {p \in from..(Len(t) + 1) : OccursAt(seg, t, p)}
         IN /\ P # {}
            /\ InOrderFrom(Tail(segs), t,
                   (CHOOSE p \in P : \A q \in P : p <= q) + Len(seg))

\* The text has three paragraphs of which only the second is over the budget,
\* and chunk_text splits by paragraphs.
ThreeParagraphCase ==
    LET ps == _split_by_paragraphs(c_text)
    IN /\ "paragraph" \in c_pref
       /\ Len(ps) = 3
       /\ estimate_tokens(ps[1]) <= c_budget
       /\ estimate_tokens(ps[2]) > c_budget
       /\ estimate_tokens(ps[3]) <= c_budget

\* C24: the chunks chunk_text returns are in source order: the content of each
\* chunk lies in the text behind the content of the chunk before it; and of three
\* paragraphs of which only the second is over the budget, the first comes back
\* as the first chunk, the third as the last, the pieces of the second between
\* them: three chunks at least.
C24_SourceOrder ==
    c_pc = "done" =>
        /\ InOrderFrom(c_out, NonWs(c_text), 1)
        /\ ThreeParagraphCase =>
              LET ps == _split_by_paragraphs(c_text)
                  n == Len(c_out)
              IN /\ n >= 3
                 /\ c_out[1] = ps[1]
                 /\ c_out[n] = ps[3]
                 /\ InOrderFrom(SubSeq(c_out, 2, n - 1), NonWs(ps[2]), 1)

C24_Witness ==
    /\ c_pc = "done"
    /\ ThreeParagraphCase
    /\ "sentence" \in c_pref
    /\ Len(c_out) = 3
    /\ c_out[1] # c_out[2]
    /\ c_out[2] # c_out[3]

\* C25: chunk_text, applied with the same budget and boundaries to a chunk it
\* returned, returns that one chunk and nothing else.
C25_Idempotent ==
    c_pc = "done" =>
        \A i \in 1..Len(c_out) : chunk_text(c_out[i], c_budget, c_pref) = << c_out[i] >>

\* The same for the chunks whose estimate is within the budget only: it holds.
IdempotentWithinBudget ==
    c_pc = "done" =>
        \A i \in 1..Len(c_out) :
            estimate_tokens(c_out[i]) <= c_budget =>
                chunk_text(c_out[i], c_budget, c_pref) = << c_out[i] >>

\* The least natural number k with k * den >= num: the ceiling of num / den.
Ceiling(num, den) == CHOOSE k \in 0..num : k * den >= num /\ \A j \in 0..(k - 1) : j * den < num

\* C26: estimate_tokens returns 0 for the empty text and, for a text of c
\* dense-script characters and o others that is not empty,
\* max(1, ceil(c / 1.5) + ceil(o / 4)), a number that is 1 at least.
C26_EstimateFormula ==
    c_pc = "estimated" =>
        LET c == Cardinality({i \in 1..Len(c_text) : c_text[i] = "zh"})
            o == Cardinality({i \in 1..Len(c_text) : c_text[i] # "zh"})
        IN IF c_text = <<>>
           THEN c_est = 0
           ELSE /\ c_est = Max(1, Ceiling(2 * c, 3) + Ceiling(o, 4))
                /\ c_est >= 1

C26_Witness ==
    /\ c_pc = "estimated"
    /\ Cardinality({i \in 1..Len(c_text) : c_text[i] = "zh"}) = 2
    /\ Len(c_text) = 7
    /\ c_est = 4

\* C30: the chunks chunk_text returns are merged greedily: no two chunks that
\* follow each other fit within the budget when joined by a newline, come they
\* from the sentences of one paragraph or from two paragraphs.
C30_GreedilyMerged ==
    c_pc = "done" =>
        \A i \in 1..(Len(c_out) - 1) :
            estimate_tokens(c_out[i] \o << "nl" >> \o c_out[i + 1]) > c_budget

\* C27: when the registry lists models of which none matches the requested one,
\* OllamaClient.translate takes the first model listed and its generation
\* request is sent with that model; when the registry lists no model, translate
\* returns None and no generation request was sent.
C27_SubstituteOrFail ==
    /\ w_last = "substituted" =>
          /\ ol_model = "first"
          /\ \/ w_pc = "ol_start" /\ w_reqs = 0
             \/ w_pc = "ol_flight" /\ w_reqs = 1
             \/ w_pc = "tf_got" /\ w_ret = "none" /\ w_reqs = 0 /\ cl_retries = 0
    /\ w_last = "no_models" =>
          /\ w_pc = "tf_got"
          /\ w_ret = "none"
          /\ w_reqs = 0

C27_Witness ==
    /\ w_last = "substituted"
    /\ w_pc = "ol_flight"
    /\ ol_model = "first"
    /\ w_reqs = 1
    /\ sent = 1

\* How far the document in work is: 1 segmenting (the client, the read, the
\* chunking), 2 translating, 3 merging and writing, 4 translate_file has ended,
\* 5 its end has been reported or there is no document in work.
Stage ==
    CASE w_pc \in {"tf_client", "tf_read"} -> 1
      [] w_pc \in TranslatePcs \cup {"tf_loop", "tf_got", "tf_sleep"} -> 2
      [] w_pc = "tf_write" -> 3
      [] w_pc = "t_after" -> 4
      [] OTHER -> 5

\* How far document d is: 0 pending, 5 when the worker is past it.
DocStage(d) == IF d > w_doc THEN 0 ELSE IF d < w_doc THEN 5 ELSE Stage

\* The statuses of one document: "翻译中", then the one status that ends it.
WellShaped(st) ==
    /\ Len(st) <= 2
    /\ Len(st) >= 1 => st[1] = "translating"
    /\ Len(st) = 2 => st[2] \in Terminal

\* The end of the document in work has been reported: file_completed has
\* emitted the status that ends it.
Reported == w_doc >= 1 /\ Len(status[w_doc]) = 2

\* C29: a document moves forward only, from pending through segmenting,
\* translating and merging to its end, and its end is reported once, as completed,
\* failed or cancelled; once it is reported, no status is reported for the
\* document any more, no chunk of it goes to the backend and nothing is written.
\* The documents are taken one after the other, so the steps are those of the
\* document in work: the worker leaves it only when its end is reported, never
\* comes back to a document, and touches the status of no other.
C29_ForwardThenFinal ==
    [][/\ w_doc' \in {w_doc, w_doc + 1}
       /\ w_doc' = w_doc => Stage' >= Stage
       /\ w_doc' = w_doc + 1 => (Stage = 5 /\ Stage' = 1 /\ ~Reported')
       /\ status' # status =>
             /\ w_doc' >= 1
             /\ ~Reported \/ w_doc' # w_doc
             /\ status' = [status EXCEPT ![w_doc'] = status'[w_doc']]
             /\ WellShaped(status'[w_doc'])
       /\ (Reported /\ w_doc' = w_doc) =>
             (sent' = sent /\ written' = written /\ w_reqs' = w_reqs)
       /\ Reported' => Stage' = 5
       /\ (Stage' = 5 /\ w_doc' >= 1) => Reported']_vars

C29_Witness ==
    /\ mode = "thread"
    /\ w_doc = 2
    /\ w_pc = "oa_flight"
    /\ status[1] = << "translating", "failed" >>
    /\ status[2] = << "translating" >>
    /\ DocStage(1) = 5
    /\ DocStage(2) = 2

\* The units a template that str.format accepts is made of: a letter, a doubled
\* brace, a field of one of the three keyword arguments.
TemplateUnits ==
    {<< c >> : c \in TemplateChars \ {"{", "}"}}
        \cup {<< "{", "{" >>, << "}", "}" >>}
        \cup {<< "{", n, "}" >> : n \in FieldNames}

\* The template is a sequence of such units.
RECURSIVE Formattable(_)
Formattable(s) ==
    \/ s = <<>>
    \/ \E u \in TemplateUnits :
          /\ Len(u) <= Len(s)
          /\ SubSeq(s, 1, Len(u)) = u
          /\ Formattable(SubSeq(s, Len(u) + 1, Len(s)))

\* C28: format_prompt raises nothing; for a template that cannot be formatted
\* (a placeholder that is unknown, a brace without its partner) it returns the
\* hardcoded minimal template with the text between the markers <SOURCE_TEXT> and
\* </SOURCE_TEXT>.
C28_FormatPromptFallsBack ==
    p_pc = "done" =>
        /\ p_out # Raised
        /\ ~Formattable(p_template) => p_out = MinimalPrompt(p_text)

C28_Witness ==
    /\ p_pc = "done"
    /\ p_template = << "{", "u", "}", "t" >>
    /\ p_text = "{braces}"
    /\ p_out = << "minimal", "<SOURCE_TEXT>", "nl", "{braces}", "nl", "</SOURCE_TEXT>" >>

\* C31: a reply that is malformed (no choices, no 'response' field, a body that
\* is not JSON) on an attempt that is not the last one does not end the translate
\* call: the call goes on to another attempt.
C31_MalformedRetried ==
    (w_last = "malformed" /\ w_attempt < cl_retries - 1) => w_pc # "tf_got"

\* C32: two attempts of one translate call that follow each other are separated
\* by a wait: 2^a time units after a rate-limit reply to attempt a (counted from
\* 0), one unit after any other error that is retried; no wait follows the last
\* attempt.
C32_WaitBetweenAttempts ==
    [][/\ w_attempt' = w_attempt + 1 =>
             w_wait = IF w_last = "rate_limit" THEN Pow2(w_attempt) ELSE 1
       /\ w_wait' >= 1 => w_attempt < cl_retries - 1]_vars

\* C33: whatever the template, the prompt format_prompt returns (the one
\* translate_file hands to the backend) holds the text of the segment.
C33_PromptHoldsText ==
    p_pc = "done" => \E i \in 1..Len(p_out) : p_out[i] = p_text


\* C34: in every sequence of batch runs on one TranslationManager, the client
\* that carries a run's translation request was built from that run's
\* configuration: it is of the run's provider and holds the run's retry limit.
C34_ClientOfThisRun ==
    w_pc \in FlightPcs => /\ cl_run = run
                          /\ llm_client = provider
                          /\ cl_retries = cfg_retries


\* A step of cancel_current_request: the stop of the thread reaching it, or a
\* caller of translate_files calling it.
CancelStep ==
    \/ u_pc = "stop_cancel" /\ u_pc' = "stop_wait"
    \/ mode = "batch" /\ stops' = stops + 1

\* C35: a cancel_request of the OllamaClient that runs while any attempt of the
\* client is in flight, its very first included, closes the session and puts a
\* fresh one in its place.
C35_CancelClosesSession ==
    [][(CancelStep /\ llm_client = "ollama" /\ w_pc = "ol_flight")
           => session' = session + 1]_vars


\* C36: a reply of the backend that succeeds but holds nothing, or white space
\* only, makes translate_file fail the document at that segment: it returns
\* False without sending a later segment and without writing an output file.
C36_BlankReplyFailsDocument ==
    [][(w_pc = "tf_got" /\ w_last = "blank" /\ w_pc' # w_pc)
           => /\ tf_result' = "false"
              /\ w_pc' \in {"t_after", "b_record"}
              /\ sent' = sent
              /\ written' = 0]_vars

\* The blank reply came for the first of two segments, and the document has
\* failed with one segment sent and nothing written.
C36_Witness ==
    /\ tf_result = "false"
    /\ w_content = "text"
    /\ w_nseg = 2
    /\ sent = 1
    /\ written = 0
    /\ g_failed = 0
    /\ ~g_interrupted
    /\ w_pc \in {"t_after", "b_record"}


\* C37: a client whose max_retries is zero or less returns failure from
\* translate without sending a translation request, so a document that has
\* content fails at its first segment: nothing of it is translated or written
\* and no second segment is sent.
C37_NoRetriesNoRequest ==
    (llm_client # "none" /\ cl_retries <= 0) =>
        /\ w_reqs = 0
        /\ w_pc \notin FlightPcs
        /\ w_content = "text" => /\ sent <= 1
                                 /\ w_translated = 0
                                 /\ written = 0
                                 /\ tf_result # "true"

\* A document of two segments has failed at its first segment, the client
\* having max_retries 0.
C37_Witness ==
    /\ llm_client # "none"
    /\ cl_retries = 0
    /\ w_content = "text"
    /\ w_nseg = 2
    /\ sent = 1
    /\ g_failed = 1
    /\ tf_result = "false"


\* C38: a cancellation requested during or after an earlier batch run never
\* cancels work of a later run. In a run that has had no stop and no
\* cancel_request of its own, no translate call returns as cancelled, the head
\* of OpenAIClient.translate's loop finds should_cancel unset, and the thread's
\* should_stop is unset.
C38_EarlierCancelForgotten ==
    (run >= 2 /\ stops = 0) =>
        /\ w_last # "cancelled"
        /\ ~g_interrupted
        /\ ~should_stop
        /\ w_pc = "oa_check" => ~should_cancel

\* The second run's first translation request is in flight on a client that
\* was built in the first run and has replaced its session on a cancel_request
\* of that run.
C38_Witness ==
    /\ run = 2
    /\ stops = 0
    /\ cl_run = 1
    /\ session >= 1
    /\ w_doc = 1
    /\ sent = 1
    /\ w_pc = "ol_flight"


\* The batch run is over: run() has returned, or translate_files has returned
\* or has been left by an exception.
RunOver == w_pc \in {"t_end", "b_end", "b_crashed"}

\* C39: when every network call returns or times out, every batch run comes to
\* its end. A translate call has sent at most max_retries requests, a document
\* at most as many segments as it has, a thread that was asked to stop starts
\* no further document, and it ends.
C39_RunTerminates ==
    /\ [](w_reqs <= cl_retries /\ sent <= w_nseg)
    /\ [][(mode = "thread" /\ should_stop) => w_doc' = w_doc]_vars
    /\ (run = 1) ~> RunOver
    /\ (mode = "thread" /\ should_stop) ~> (w_pc = "t_end")

\* A run of two documents has ended after a stop that came while the second
\* request of a segment of the first document was in flight: that document was
\* the only one started.
C39_Witness ==
    /\ RunOver
    /\ mode = "thread"
    /\ total = 2
    /\ w_doc = 1
    /\ should_stop
    /\ g_inflight >= 1
    /\ g_cancel_reqs = -1

====
